---- MODULE Spec2Model ----
(***************************************************************************)
(* Lexicon-hit detection (code/02_detect_lexicon_hits.py) followed by the  *)
(* rate computations of the analysis (code/03_analysis.py).                *)
(*                                                                         *)
(* Text that the code transforms (lemmas, part-of-speech tags, lexicon     *)
(* entries, sentence_id fields of the CSV files) is a sequence of          *)
(* one-character strings, so that strip(), lower() and int() are computed  *)
(* rather than assumed.  Dictionary keys and literals that the code never  *)
(* transforms ("verbs", "transgression", "both", ...) are plain strings.   *)
(***************************************************************************)
EXTENDS Integers, Sequences, FiniteSets, TLC

\* ------------------------------------------------------------------ bounds
MaxTokens == 2      \* rows of tokens.csv read in one run
MaxSents == 2       \* rows of sentences.csv
MaxHits == 3        \* rows of a token_hits.csv the analysis is started on
MaxTop == 2         \* largest n asked of top_n
MaxFreqTokens == 2  \* rows of tokens.csv read by 00_lemma_frequencies.py

\* ------------------------------------------------------------ str methods
Whitespace == {" "}

RECURSIVE lstrip(_)
lstrip(s) ==
    IF s # <<>> /\ Head(s) \in Whitespace THEN lstrip(Tail(s)) ELSE s

RECURSIVE rstrip(_)
rstrip(s) ==
    IF s # <<>> /\ s[Len(s)] \in Whitespace
    THEN rstrip(SubSeq(s, 1, Len(s) - 1))
    ELSE s

\* str.strip()
strip(s) == rstrip(lstrip(s))

lower_char(c) ==
    CASE c = "A" -> "a"
      [] c = "B" -> "b"
      [] OTHER -> c

\* str.lower()
lower(s) == [i \in 1..Len(s) |-> lower_char(s[i])]

\* sep.join(parts) for a one-character separator
RECURSIVE join(_, _)
join(sep, parts) ==
    IF parts = <<>> THEN <<>>
    ELSE IF Len(parts) = 1 THEN parts[1]
    ELSE parts[1] \o <<sep>> \o join(sep, Tail(parts))

\* sep.join(parts) where sep and the parts are literals
RECURSIVE join_str(_, _)
join_str(sep, parts) ==
    IF parts = <<>> THEN ""
    ELSE IF Len(parts) = 1 THEN parts[1]
    ELSE parts[1] \o sep \o join_str(sep, Tail(parts))

Digits == ("0" :> 0) @@ ("1" :> 1) @@ ("2" :> 2)

\* int(text) succeeds: optional surrounding whitespace around decimal digits
int_ok(text) ==
    LET t == strip(text)
    IN  t # <<>> /\ \A i \in 1..Len(t) : t[i] \in DOMAIN Digits

RECURSIVE int_digits(_)
int_digits(t) ==
    IF t = <<>> THEN 0
    ELSE 10 * int_digits(SubSeq(t, 1, Len(t) - 1)) + Digits[t[Len(t)]]

\* int(text) where int_ok(text)
int(text) == int_digits(strip(text))

\* ------------------------------------------------------- POS_TO_LEXCAT
VERB == <<"V", "E", "R", "B">>
NOUN == <<"N", "O", "U", "N">>
PROPN == <<"P", "R", "O", "P", "N">>
ADJ == <<"A", "D", "J">>
ADV == <<"A", "D", "V">>
DET == <<"D", "E", "T">>

POS_TO_LEXCAT ==
    (VERB :> "verbs") @@ (NOUN :> "nouns") @@ (PROPN :> "nouns")
    @@ (ADJ :> "adjectives") @@ (ADV :> "adverbs")

None == "None"

\* a lookup that falls back to a category instead of None
lexcat_or_nouns(pos) ==
    IF pos \in DOMAIN POS_TO_LEXCAT THEN POS_TO_LEXCAT[pos] ELSE "nouns"

\* POS_TO_LEXCAT.get(pos)
lexcat_of(pos) ==
    IF pos \in DOMAIN POS_TO_LEXCAT THEN POS_TO_LEXCAT[pos] ELSE None

Categories == <<"verbs", "nouns", "adjectives", "adverbs">>
CategorySet == {Categories[i] : i \in 1..Len(Categories)}

\* --------------------------------------------------------- JSON documents
\* A JSON value is a record with a type tag t; a list carries its elements
\* in v, a string its characters in v, an object its members in v.
JNull == [t |-> "null"]
JNum == [t |-> "number"]
JStr(chars) == [t |-> "string", v |-> chars]
JList(elems) == [t |-> "list", v |-> elems]
JObj(members) == [t |-> "object", v |-> members]

\* isinstance(vals, list) and all(isinstance(v, str) for v in vals)
is_list_of_str(vals) ==
    /\ vals.t = "list"
    /\ \A i \in 1..Len(vals.v) : vals.v[i].t = "string"

\* data.get(cat, []) without the None case
get_vals_keep_null(data, cat) ==
    IF cat \in DOMAIN data.v THEN data.v[cat] ELSE JList(<<>>)

\* data.get(cat, []) followed by "if vals is None: vals = []"
get_vals(data, cat) ==
    LET vals == IF cat \in DOMAIN data.v THEN data.v[cat] ELSE JList(<<>>)
    IN  IF vals.t = "null" THEN JList(<<>>) ELSE vals

\* load_lexicon raises ValueError
load_lexicon_raises(data) ==
    \/ data.t # "object"
    \/ \E cat \in CategorySet : ~is_list_of_str(get_vals(data, cat))

\* {v.strip().lower() for v in vals if v and v.strip()}
normalized_set(vals) ==
    {lower(strip(vals.v[i].v)) :
        i \in {j \in 1..Len(vals.v) :
                 vals.v[j].v # <<>> /\ strip(vals.v[j].v) # <<>>}}

\* load_lexicon's return value when it does not raise
load_lexicon(data) ==
    [cat \in CategorySet |-> normalized_set(get_vals(data, cat))]

\* membership looked up in every category of the lexicon
lexicon_has_any_category(lex, lex_cat, lemma) ==
    \E cat \in DOMAIN lex : lemma \in lex[cat]

\* lex.get(lex_cat, set()) contains lemma
lexicon_has(lex, lex_cat, lemma) ==
    IF lex_cat \in DOMAIN lex THEN lemma \in lex[lex_cat] ELSE FALSE

\* ------------------------------------------------------------ the inputs
InputFiles == {"TOKENS_IN", "SENTENCES_IN", "TRANS_LEX", "PUN_LEX", "REWARD_LEX"}
LexiconNames == <<"transgression", "punishment", "reward">>

\* Lexicon files a run may find: two that load and five that do not.
DocVerbs ==
    JObj(("verbs" :> JList(<<JStr(<<" ", "A", " ">>), JStr(<<" ">>),
                              JStr(<<"B">>)>>))
         @@ ("nouns" :> JNull))
DocNouns == JObj(("nouns" :> JList(<<JStr(<<"a">>)>>)))
DocNotObject == JList(<<JStr(<<"a">>)>>)
DocString == JObj(("verbs" :> JStr(<<"a">>)))
DocNumber == JObj(("nouns" :> JNum))
DocNested == JObj(("adverbs" :> JObj(<<>>)))
DocMixedList == JObj(("adjectives" :> JList(<<JStr(<<"a">>), JNum>>)))

LexiconDocs ==
    {DocVerbs, DocNouns, DocNotObject, DocString, DocNumber, DocNested,
     DocMixedList}

NoDoc == [t |-> "unread"]

\* sentence_id fields of the CSV files: two numbers and a field int() rejects
SidTexts == {<<"0">>, <<" ", "1">>, <<"x">>}
RawLemmas == {<<" ">>, <<" ", "A">>}
RawPos == {VERB, NOUN, PROPN, ADJ, ADV, DET, <<" ">> \o VERB}

\* sentences.csv: the text of row i is modelled by i, distinct per row
SentenceFiles ==
    {[i \in 1..Len(f) |-> [sentence_id |-> f[i], sentence_text |-> i]] :
        f \in UNION {[1..k -> SidTexts] : k \in 0..MaxSents}}

\* tokens.csv rows; the surface form of row i is modelled by i
TokenRows ==
    [sentence_id : {t \in SidTexts : int_ok(t)}, lemma : RawLemmas, pos : RawPos]
    \cup [sentence_id : {t \in SidTexts : ~int_ok(t)}, lemma : {<<" ", "A">>},
          pos : {VERB}]
    \cup [sentence_id : {<<"0">>}, lemma : {<<"b">>}, pos : {VERB}]

\* -------------------------------------------------------------- the state
VARIABLES
    exists,           \* which input files are on disk
    docs,             \* the JSON document read from each lexicon file
    trans, pun, reward, use_reward,
    sentence_rows,    \* the rows read from sentences.csv
    sentences,        \* load_sentences' dict: sentence id -> text
    trans_hits, pun_hits, reward_hits,
    token_hits_rows,
    row, n,           \* the tokens.csv row of the iteration, and how many were read
    pc, err, err_at,  \* position of main(), the exception raised, and where
    TOKEN_HITS_OUT, SENT_HITS_OUT,
    apc, aerr,        \* 03_analysis.py main(): position and exception
    counters,         \* 03_analysis.py: the Counter of each hit_type
    top,              \* the last top_n query and its result
    lf                \* 00_lemma_frequencies.py main(): inputs and Counters

vars ==
    <<exists, docs, trans, pun, reward, use_reward, sentence_rows, sentences,
      trans_hits, pun_hits, reward_hits, token_hits_rows, row, n, pc, err,
      err_at, TOKEN_HITS_OUT, SENT_HITS_OUT, apc, aerr, counters, top, lf>>

lexvars == <<docs, trans, pun, reward, use_reward>>
sentvars == <<sentence_rows, sentences>>
loopvars == <<trans_hits, pun_hits, reward_hits, token_hits_rows, row, n>>
outvars == <<TOKEN_HITS_OUT, SENT_HITS_OUT>>
avars == <<apc, aerr, counters, top, lf>>

EmptyLexicon == [cat \in CategorySet |-> {}]
NoFile == [written |-> FALSE, fieldnames |-> <<>>, rows |-> <<>>]
NoRow == [sentence_id |-> <<>>, token |-> 0, lemma |-> <<>>, pos |-> <<>>]

\* the hit_type values 03_analysis.py keeps a Counter for, lines 138-142
HitTypes == {"transgression", "punishment", "reward", "both", "triple"}
EmptyCounters == [hit_type \in HitTypes |-> <<>>]
NoTop == [label |-> None, n |-> 0, items |-> <<>>]
NoFrequencies ==
    [pc |-> "not_run", tokens |-> <<>>, trans_verbs |-> {}, pun_verbs |-> {},
     framing_cues |-> {}, trans_counts |-> <<>>, pun_counts |-> <<>>,
     framing_counts |-> <<>>]

Init ==
    /\ exists \in [InputFiles -> BOOLEAN]
    /\ docs = [name \in {"transgression", "punishment", "reward"} |-> NoDoc]
    /\ trans = EmptyLexicon
    /\ pun = EmptyLexicon
    /\ reward = EmptyLexicon
    /\ use_reward = FALSE
    /\ sentence_rows = <<>>
    /\ sentences = <<>>
    /\ trans_hits = <<>>
    /\ pun_hits = <<>>
    /\ reward_hits = <<>>
    /\ token_hits_rows = <<>>
    /\ row = NoRow
    /\ n = 0
    /\ pc = "check_inputs"
    /\ err = None
    /\ err_at = None
    /\ TOKEN_HITS_OUT = NoFile
    /\ SENT_HITS_OUT = NoFile
    /\ apc = "idle"
    /\ aerr = None
    /\ counters = EmptyCounters
    /\ top = NoTop
    /\ lf = NoFrequencies

\* an exception leaves main()
Raise(e) ==
    /\ pc' = "aborted"
    /\ err' = e
    /\ err_at' = pc

\* lines 98-103
CheckInputs ==
    /\ pc = "check_inputs"
    /\ IF ~exists["TOKENS_IN"] \/ ~exists["SENTENCES_IN"]
          \/ ~exists["TRANS_LEX"] \/ ~exists["PUN_LEX"]
       THEN Raise("FileNotFoundError")
       ELSE pc' = "load_trans" /\ UNCHANGED <<err, err_at>>
    /\ UNCHANGED <<exists, lexvars, sentvars, loopvars, outvars, avars>>

\* line 105
LoadTrans ==
    /\ pc = "load_trans"
    /\ \E data \in LexiconDocs :
        /\ docs' = [docs EXCEPT !["transgression"] = data]
        /\ IF load_lexicon_raises(data)
           THEN Raise("ValueError") /\ UNCHANGED trans
           ELSE /\ trans' = load_lexicon(data)
                /\ pc' = "load_pun"
                /\ UNCHANGED <<err, err_at>>
    /\ UNCHANGED <<exists, pun, reward, use_reward, sentvars, loopvars,
                   outvars, avars>>

\* line 106
LoadPun ==
    /\ pc = "load_pun"
    /\ \E data \in LexiconDocs :
        /\ docs' = [docs EXCEPT !["punishment"] = data]
        /\ IF load_lexicon_raises(data)
           THEN Raise("ValueError") /\ UNCHANGED pun
           ELSE /\ pun' = load_lexicon(data)
                /\ pc' = "load_reward"
                /\ UNCHANGED <<err, err_at>>
    /\ UNCHANGED <<exists, trans, reward, use_reward, sentvars, loopvars,
                   outvars, avars>>

\* the reward lexicon taken to be always there
reward_assumed(disk) == TRUE

\* line 109: REWARD_LEX.exists()
reward_exists(disk) == disk["REWARD_LEX"]

\* a reward file that does not load is treated like a missing one
LoadRewardLenient ==
    /\ pc = "load_reward"
    /\ pc' = "load_sentences"
    /\ IF reward_exists(exists)
       THEN \E data \in LexiconDocs :
               /\ docs' = [docs EXCEPT !["reward"] = data]
               /\ IF load_lexicon_raises(data)
                  THEN use_reward' = FALSE /\ UNCHANGED reward
                  ELSE use_reward' = TRUE /\ reward' = load_lexicon(data)
       ELSE use_reward' = FALSE /\ UNCHANGED <<docs, reward>>
    /\ UNCHANGED <<exists, trans, pun, sentvars, loopvars, err, err_at,
                   outvars, avars>>

\* lines 108-111
LoadReward ==
    /\ pc = "load_reward"
    /\ use_reward' = reward_exists(exists)
    /\ IF use_reward'
       THEN \E data \in LexiconDocs :
               /\ docs' = [docs EXCEPT !["reward"] = data]
               /\ IF load_lexicon_raises(data)
                  THEN Raise("ValueError") /\ UNCHANGED reward
                  ELSE /\ reward' = load_lexicon(data)
                       /\ pc' = "load_sentences"
                       /\ UNCHANGED <<err, err_at>>
       ELSE /\ pc' = "load_sentences"
            /\ UNCHANGED <<docs, reward, err, err_at>>
    /\ UNCHANGED <<exists, trans, pun, sentvars, loopvars, outvars, avars>>

\* dict item assignment d[k] = v
setitem(d, k, v) == [x \in DOMAIN d \cup {k} |-> IF x = k THEN v ELSE d[x]]

\* lines 83-90, for rows whose sentence_id int() accepts
RECURSIVE load_sentences(_)
load_sentences(rows) ==
    IF rows = <<>> THEN <<>>
    ELSE LET last == rows[Len(rows)]
         IN  setitem(load_sentences(SubSeq(rows, 1, Len(rows) - 1)),
                     int(last.sentence_id), last.sentence_text)

\* line 113
LoadSentences ==
    /\ pc = "load_sentences"
    /\ \E rows \in SentenceFiles :
        /\ sentence_rows' = rows
        /\ IF \E i \in 1..Len(rows) : ~int_ok(rows[i].sentence_id)
           THEN Raise("ValueError") /\ UNCHANGED sentences
           ELSE /\ sentences' = load_sentences(rows)
                /\ pc' = "tokens"
                /\ UNCHANGED <<err, err_at>>
    /\ UNCHANGED <<exists, lexvars, loopvars, outvars, avars>>

\* ------------------------------------------------- the token loop, 122-180
\* line 127: (row["lemma"] or "").lower().strip()
normalize_lemma(raw) == strip(lower(raw))

\* line 128: (row["pos"] or "").strip()
normalize_pos(raw) == strip(raw)

\* lines 139-141
in_reward_of(lex_cat, lemma) ==
    IF use_reward THEN lexicon_has(reward, lex_cat, lemma) ELSE FALSE

\* the optional lexicon appended first
hit_labels_reward_first(in_trans, in_pun, in_reward) ==
    (IF in_reward THEN <<"reward">> ELSE <<>>)
    \o (IF in_trans THEN <<"transgression">> ELSE <<>>)
    \o (IF in_pun THEN <<"punishment">> ELSE <<>>)

\* lines 155-161
hit_labels_of(in_trans, in_pun, in_reward) ==
    (IF in_trans THEN <<"transgression">> ELSE <<>>)
    \o (IF in_pun THEN <<"punishment">> ELSE <<>>)
    \o (IF in_reward THEN <<"reward">> ELSE <<>>)

\* two matches labelled by the first of them
hit_type_first_of_two(hit_labels) ==
    IF Len(hit_labels) <= 2 THEN hit_labels[1] ELSE "triple"

\* lines 163-168
hit_type_of(hit_labels) ==
    IF Len(hit_labels) = 1 THEN hit_labels[1]
    ELSE IF Len(hit_labels) = 2 THEN "both"
    ELSE "triple"

\* lines 130-135: the token passes the empty-lemma and the POS filter
passes_filters(lemma, lex_cat) == lemma # <<>> /\ lex_cat # None

\* hits[sid].insert(0, lemma)
append_hit_front(hits, sid, lemma) ==
    IF sid \in DOMAIN hits
    THEN [hits EXCEPT ![sid] = <<lemma>> \o @]
    ELSE [x \in DOMAIN hits \cup {sid} |->
             IF x = sid THEN <<lemma>> ELSE hits[x]]

\* hits[sid] = [lemma]
append_hit_overwrite(hits, sid, lemma) ==
    [x \in DOMAIN hits \cup {sid} |-> IF x = sid THEN <<lemma>> ELSE hits[x]]

\* defaultdict(list): hits[sid].append(lemma)
append_hit(hits, sid, lemma) ==
    IF sid \in DOMAIN hits
    THEN [hits EXCEPT ![sid] = Append(@, lemma)]
    ELSE setitem(hits, sid, <<lemma>>)

\* one iteration of "for row in reader", lines 124-180
ProcessRow ==
    /\ pc = "tokens"
    /\ n < MaxTokens
    /\ \E r \in TokenRows :
        /\ n' = n + 1
        /\ row' = [sentence_id |-> r.sentence_id, token |-> n + 1,
                   lemma |-> r.lemma, pos |-> r.pos]
        /\ IF ~int_ok(r.sentence_id)
           THEN /\ Raise("ValueError")
                /\ UNCHANGED <<trans_hits, pun_hits, reward_hits,
                               token_hits_rows>>
           ELSE LET sid == int(r.sentence_id)
                    lemma == normalize_lemma(r.lemma)
                    pos == normalize_pos(r.pos)
                    lex_cat == lexcat_of(pos)
                    in_trans == lexicon_has(trans, lex_cat, lemma)
                    in_pun == lexicon_has(pun, lex_cat, lemma)
                    in_reward == in_reward_of(lex_cat, lemma)
                    hit_labels == hit_labels_of(in_trans, in_pun, in_reward)
                IN  /\ UNCHANGED <<pc, err, err_at>>
                    /\ IF ~passes_filters(lemma, lex_cat)
                          \/ ~(in_trans \/ in_pun \/ in_reward)
                       THEN UNCHANGED <<trans_hits, pun_hits, reward_hits,
                                        token_hits_rows>>
                       ELSE /\ trans_hits' =
                                 IF in_trans
                                 THEN append_hit(trans_hits, sid, lemma)
                                 ELSE trans_hits
                            /\ pun_hits' =
                                 IF in_pun
                                 THEN append_hit(pun_hits, sid, lemma)
                                 ELSE pun_hits
                            /\ reward_hits' =
                                 IF in_reward
                                 THEN append_hit(reward_hits, sid, lemma)
                                 ELSE reward_hits
                            /\ token_hits_rows' =
                                 Append(token_hits_rows,
                                    [sentence_id |-> sid,
                                     token |-> n + 1,
                                     lemma |-> lemma,
                                     pos |-> pos,
                                     lex_cat |-> lex_cat,
                                     hit_type |-> hit_type_of(hit_labels),
                                     hit_labels |-> join_str("|", hit_labels)])
    /\ UNCHANGED <<exists, lexvars, sentvars, outvars, avars>>

\* the reader is exhausted
EndOfTokens ==
    /\ pc = "tokens"
    /\ pc' = "write_token_hits"
    /\ row' = NoRow
    /\ UNCHANGED <<exists, lexvars, sentvars, trans_hits, pun_hits,
                   reward_hits, token_hits_rows, n, err, err_at, outvars,
                   avars>>

\* ------------------------------------------------------------ the outputs
TokenHitsFields ==
    <<"sentence_id", "token", "lemma", "pos", "lex_cat", "hit_type",
      "hit_labels">>

\* the token-hit table opened and written before the inputs are looked at
WriteTokenHitsFirst ==
    /\ pc = "check_inputs"
    /\ ~TOKEN_HITS_OUT.written
    /\ TOKEN_HITS_OUT' = [written |-> TRUE, fieldnames |-> TokenHitsFields,
                          rows |-> token_hits_rows]
    /\ pc' = pc
    /\ UNCHANGED <<exists, lexvars, sentvars, loopvars, err, err_at,
                   SENT_HITS_OUT, avars>>

\* lines 183-187
WriteTokenHits ==
    /\ pc = "write_token_hits"
    /\ TOKEN_HITS_OUT' = [written |-> TRUE, fieldnames |-> TokenHitsFields,
                          rows |-> token_hits_rows]
    /\ pc' = "write_sentence_hits"
    /\ UNCHANGED <<exists, lexvars, sentvars, loopvars, err, err_at,
                   SENT_HITS_OUT, avars>>

\* lines 191-211
SentHitsFields ==
    <<"sentence_id", "sentence_text", "transgression_hit_count",
      "punishment_hit_count">>
    \o (IF use_reward THEN <<"reward_hit_count">> ELSE <<>>)
    \o <<"transgression_lemmas", "punishment_lemmas">>
    \o (IF use_reward THEN <<"reward_lemmas">> ELSE <<>>)
    \o <<"any_hit">>

\* sorted(keys)
RECURSIVE sorted(_)
sorted(keys) ==
    IF keys = {} THEN <<>>
    ELSE LET least == CHOOSE k \in keys : \A j \in keys : k <= j
         IN  <<least>> \o sorted(keys \ {least})

\* hits.get(sid, [])
get_hits(hits, sid) == IF sid \in DOMAIN hits THEN hits[sid] ELSE <<>>

\* the flag computed from the two required lexicons only
any_hit_required_only(t, p, r) == IF t # <<>> \/ p # <<>> THEN 1 ELSE 0

\* line 228: int(bool(t) or bool(p) or (bool(r) if use_reward else False))
any_hit_of(t, p, r) ==
    IF t # <<>> \/ p # <<>> \/ (IF use_reward THEN r # <<>> ELSE FALSE)
    THEN 1 ELSE 0

\* lines 217-233
row_out(sid) ==
    LET t == get_hits(trans_hits, sid)
        p == get_hits(pun_hits, sid)
        r == IF use_reward THEN get_hits(reward_hits, sid) ELSE <<>>
    IN  [sentence_id |-> sid,
         sentence_text |-> sentences[sid],
         transgression_hit_count |-> Len(t),
         punishment_hit_count |-> Len(p),
         transgression_lemmas |-> join(" ", t),
         punishment_lemmas |-> join(" ", p),
         any_hit |-> any_hit_of(t, p, r)]
        @@ (IF use_reward
            THEN [reward_hit_count |-> Len(r), reward_lemmas |-> join(" ", r)]
            ELSE <<>>)

\* sorted(keys, reverse=True)
RECURSIVE sorted_reverse(_)
sorted_reverse(keys) ==
    IF keys = {} THEN <<>>
    ELSE LET greatest == CHOOSE k \in keys : \A j \in keys : k >= j
         IN  <<greatest>> \o sorted_reverse(keys \ {greatest})

\* the rows written from the largest sentence id down
row_order_reverse(dict) == sorted_reverse(DOMAIN dict)

\* line 216: the order in which the rows are written
row_order(dict) == sorted(DOMAIN dict)

\* lines 190-235
WriteSentenceHits ==
    /\ pc = "write_sentence_hits"
    /\ LET order == row_order(sentences)
       IN  SENT_HITS_OUT' =
             [written |-> TRUE, fieldnames |-> SentHitsFields,
              rows |-> [i \in 1..Len(order) |-> row_out(order[i])]]
    /\ pc' = "summary"
    /\ UNCHANGED <<exists, lexvars, sentvars, loopvars, err, err_at,
                   TOKEN_HITS_OUT, avars>>

\* the f-string {hit/total:.1%} raises ZeroDivisionError when total is 0
rate_raises(total) == total = 0

\* lines 240-251
Summary ==
    /\ pc = "summary"
    /\ LET total_sents == Cardinality(DOMAIN sentences)
       IN  IF rate_raises(total_sents)
           THEN Raise("ZeroDivisionError")
           ELSE pc' = "done" /\ UNCHANGED <<err, err_at>>
    /\ UNCHANGED <<exists, lexvars, sentvars, loopvars, outvars, avars>>

\* ------------------------------------------- 03_analysis.py, lines 107-177
\* A Counter is the sequence of its items in insertion order.
\* counter[lemma] += 1
counter_add(counter, lemma) ==
    IF \E i \in 1..Len(counter) : counter[i].lemma = lemma
    THEN [i \in 1..Len(counter) |->
             IF counter[i].lemma = lemma
             THEN [lemma |-> lemma, count |-> counter[i].count + 1]
             ELSE counter[i]]
    ELSE Append(counter, [lemma |-> lemma, count |-> 1])

\* a row labelled "both" counted under "both" and under "transgression" too
count_row_both_and_own(tables, r) ==
    LET lemma == normalize_lemma(r.lemma)
    IN  IF lemma = <<>> \/ r.hit_type \notin DOMAIN tables THEN tables
        ELSE IF r.hit_type = "both"
        THEN [tables EXCEPT !["both"] = counter_add(@, lemma),
                            !["transgression"] = counter_add(@, lemma)]
        ELSE [tables EXCEPT ![r.hit_type] = counter_add(@, lemma)]

\* lines 76 and 145-159: one row of token_hits.csv; the hit_type values the
\* detection writes are lowercase and trimmed already (line 77)
count_row(tables, r) ==
    LET lemma == normalize_lemma(r.lemma)
    IN  IF lemma = <<>> \/ r.hit_type \notin DOMAIN tables THEN tables
        ELSE [tables EXCEPT ![r.hit_type] = counter_add(@, lemma)]

\* lines 144-159: for r in token_rows
RECURSIVE count_rows(_, _)
count_rows(tables, rows) ==
    IF rows = <<>> THEN tables
    ELSE count_rows(count_row(tables, Head(rows)), Tail(rows))

\* the items of a counter without the one at position i
without(counter, i) ==
    SubSeq(counter, 1, i - 1) \o SubSeq(counter, i + 1, Len(counter))

\* among equal counts the item seen last comes first
RECURSIVE most_common_last_seen(_, _)
most_common_last_seen(counter, k) ==
    IF k <= 0 \/ counter = <<>> THEN <<>>
    ELSE LET best == CHOOSE i \in 1..Len(counter) :
                 \A j \in 1..Len(counter) :
                     \/ counter[i].count > counter[j].count
                     \/ counter[i].count = counter[j].count /\ i >= j
         IN  <<counter[best]>>
             \o most_common_last_seen(without(counter, best), k - 1)

\* Counter.most_common(k): heapq.nlargest(k, items, key=count), which keeps
\* the earlier of two items with equal counts first
RECURSIVE most_common(_, _)
most_common(counter, k) ==
    IF k <= 0 \/ counter = <<>> THEN <<>>
    ELSE LET best == CHOOSE i \in 1..Len(counter) :
                 \A j \in 1..Len(counter) :
                     \/ counter[i].count > counter[j].count
                     \/ counter[i].count = counter[j].count /\ i <= j
         IN  <<counter[best]>> \o most_common(without(counter, best), k - 1)

\* lines 84-85
top_n(counter, k) == most_common(counter, k)

\* run once the detection script has ended, whichever way
AnalysisMain ==
    /\ apc = "idle"
    /\ pc \in {"done", "aborted"}
    /\ IF ~SENT_HITS_OUT.written \/ ~TOKEN_HITS_OUT.written
       THEN apc' = "aborted" /\ aerr' = "FileNotFoundError"
            /\ UNCHANGED counters
       ELSE /\ counters' = count_rows(EmptyCounters, TOKEN_HITS_OUT.rows)
            /\ LET total_sents == Len(SENT_HITS_OUT.rows)
               IN  IF rate_raises(total_sents)
                   THEN apc' = "aborted" /\ aerr' = "ZeroDivisionError"
                   ELSE apc' = "done" /\ UNCHANGED aerr
    /\ UNCHANGED <<exists, lexvars, sentvars, loopvars, pc, err, err_at,
                   outvars, top, lf>>

\* a call top_n(counter, k) of the report, lines 181-206, made once the rates
\* are written; the report passes 15, here k ranges over 1..MaxTop
TopQuery ==
    /\ apc = "done"
    /\ top = NoTop
    /\ \E label \in HitTypes, k \in 1..MaxTop :
           top' = [label |-> label, n |-> k, items |-> top_n(counters[label], k)]
    /\ UNCHANGED <<exists, lexvars, sentvars, loopvars, pc, err, err_at,
                   outvars, apc, aerr, counters, lf>>

Next ==
    \/ CheckInputs
    \/ LoadTrans
    \/ LoadPun
    \/ LoadReward
    \/ LoadSentences
    \/ ProcessRow
    \/ EndOfTokens
    \/ WriteTokenHits
    \/ WriteSentenceHits
    \/ Summary
    \/ AnalysisMain

Spec == Init /\ [][Next]_vars

\* ------------------------------------ 00_lemma_frequencies.py, lines 33-67
\* lines 33-35: set(data[key])
load_lexicon_key(data, key) ==
    {data.v[key].v[i].v : i \in 1..Len(data.v[key].v)}

\* the lexicon files and tokens.csv rows 00_lemma_frequencies.py may find
KeyDocs(key) ==
    {JObj((key :> JList(<<>>))), JObj((key :> JList(<<JStr(<<"a">>)>>)))}

FreqTokenRows == [lemma : {<<>>, <<"A">>}, pos : {VERB, NOUN}]

FreqTokenFiles == UNION {[1..k -> FreqTokenRows] : k \in 0..MaxFreqTokens}

\* lines 52-67: one row of tokens.csv
frequencies_row(f, r) ==
    LET lemma == lower(r.lemma)
        in_trans == r.pos = VERB /\ lemma \in f.trans_verbs
        in_pun == r.pos = VERB /\ lemma \in f.pun_verbs
    IN  IF lemma = <<>> THEN f
        ELSE [f EXCEPT
                !.trans_counts =
                    IF in_trans THEN counter_add(@, lemma) ELSE @,
                !.pun_counts =
                    IF in_pun THEN counter_add(@, lemma) ELSE @,
                !.framing_counts =
                    IF lemma \in f.framing_cues
                    THEN counter_add(@, lemma) ELSE @]

\* lines 50-67: for row in csv.DictReader(f)
RECURSIVE frequencies_rows(_, _)
frequencies_rows(f, rows) ==
    IF rows = <<>> THEN f
    ELSE frequencies_rows(frequencies_row(f, Head(rows)), Tail(rows))

\* lines 38-67, with tokens.csv and the three lexicon files present
LemmaFrequenciesMain ==
    /\ lf.pc = "idle"
    /\ \E rows \in FreqTokenFiles, t \in KeyDocs("verbs"),
          p \in KeyDocs("verbs"), c \in KeyDocs("cues") :
           lf' = frequencies_rows(
                     [pc |-> "done", tokens |-> rows,
                      trans_verbs |-> load_lexicon_key(t, "verbs"),
                      pun_verbs |-> load_lexicon_key(p, "verbs"),
                      framing_cues |-> load_lexicon_key(c, "cues"),
                      trans_counts |-> <<>>, pun_counts |-> <<>>,
                      framing_counts |-> <<>>],
                     rows)
    /\ UNCHANGED <<exists, lexvars, sentvars, loopvars, pc, err, err_at,
                   outvars, apc, aerr, counters, top>>

\* ------------------------- the reporting scripts on tables left on disk
\* token_hits.csv rows of an earlier detection run with all three lexicons:
\* lemma, hit_type and the hit_labels written with it
HitKinds ==
    {<<"transgression", <<"transgression">>>>,
     <<"punishment", <<"punishment">>>>,
     <<"reward", <<"reward">>>>,
     <<"both", <<"transgression", "punishment">>>>,
     <<"triple", <<"transgression", "punishment", "reward">>>>}

LeftHitRows ==
    {[lemma |-> l, kind |-> k] : l \in {<<"a">>, <<"b">>}, k \in HitKinds}
    \cup {[lemma |-> <<"c">>, kind |-> <<"transgression", <<"transgression">>>>]}

\* the token-hit table the detection writes for such rows, all of sentence 0
left_token_hits(picked) ==
    [written |-> TRUE, fieldnames |-> TokenHitsFields,
     rows |-> [i \in 1..Len(picked) |->
                  [sentence_id |-> 0, token |-> i, lemma |-> picked[i].lemma,
                   pos |-> VERB, lex_cat |-> "verbs",
                   hit_type |-> picked[i].kind[1],
                   hit_labels |-> join_str("|", picked[i].kind[2])]]]

\* and the sentence-hit table written with it, sentences.csv listing sentence 0
left_sentence_hits(picked) ==
    LET lemmas_of(name) ==
            LET named(x) == \E j \in 1..Len(x.kind[2]) : x.kind[2][j] = name
                sel == SelectSeq(picked, named)
            IN  [i \in 1..Len(sel) |-> sel[i].lemma]
        t == lemmas_of("transgression")
        p == lemmas_of("punishment")
        r == lemmas_of("reward")
    IN  [written |-> TRUE,
         fieldnames |->
             <<"sentence_id", "sentence_text", "transgression_hit_count",
               "punishment_hit_count", "reward_hit_count",
               "transgression_lemmas", "punishment_lemmas", "reward_lemmas",
               "any_hit">>,
         rows |-> <<[sentence_id |-> 0, sentence_text |-> 1,
                     transgression_hit_count |-> Len(t),
                     punishment_hit_count |-> Len(p),
                     reward_hit_count |-> Len(r),
                     transgression_lemmas |-> join(" ", t),
                     punishment_lemmas |-> join(" ", p),
                     reward_lemmas |-> join(" ", r),
                     any_hit |-> IF t # <<>> \/ p # <<>> \/ r # <<>>
                                 THEN 1 ELSE 0]>>]

\* The detection has run to its end in an earlier process and only its two
\* tables remain; either they hold hits and 03_analysis.py is run on them, or
\* they hold none and 00_lemma_frequencies.py is run as well.
InitFreq ==
    /\ exists = [f \in InputFiles |-> TRUE]
    /\ docs = [name \in {"transgression", "punishment", "reward"} |-> NoDoc]
    /\ trans = EmptyLexicon
    /\ pun = EmptyLexicon
    /\ reward = EmptyLexicon
    /\ use_reward = TRUE
    /\ sentence_rows = <<>>
    /\ sentences = <<>>
    /\ trans_hits = <<>>
    /\ pun_hits = <<>>
    /\ reward_hits = <<>>
    /\ token_hits_rows = <<>>
    /\ row = NoRow
    /\ n = 0
    /\ pc = "done"
    /\ err = None
    /\ err_at = None
    /\ \E picked \in UNION {[1..k -> LeftHitRows] : k \in 0..MaxHits} :
           /\ TOKEN_HITS_OUT = left_token_hits(picked)
           /\ SENT_HITS_OUT = left_sentence_hits(picked)
           /\ lf \in {[NoFrequencies EXCEPT !.pc = state] :
                         state \in IF picked = <<>>
                                    THEN {"idle", "not_run"}
                                    ELSE {"not_run"}}
    /\ apc = "idle"
    /\ aerr = None
    /\ counters = EmptyCounters
    /\ top = NoTop

NextFreq ==
    \/ AnalysisMain
    \/ TopQuery
    \/ LemmaFrequenciesMain

SpecFreq == InitFreq /\ [][NextFreq]_vars

\* ============================================================== the claims
\* The lexicon a name stands for in this run; an inactive one matches nothing.
lexicon_named(name) ==
    CASE name = "transgression" -> trans
      [] name = "punishment" -> pun
      [] name = "reward" -> IF use_reward THEN reward ELSE EmptyLexicon

\* The names of the active lexicons whose set for lex_cat contains lemma, as a
\* set and in registry order.
matching(lex_cat, lemma) ==
    {name \in {"transgression", "punishment", "reward"} :
        lemma \in lexicon_named(name)[lex_cat]}

matching_in_order(lex_cat, lemma) ==
    LET hit(name) == name \in matching(lex_cat, lemma)
    IN  SelectSeq(LexiconNames, hit)

\* The sentence ids listed in sentences.csv.
listed_ids ==
    {int(sentence_rows[i].sentence_id) : i \in 1..Len(sentence_rows)}

\* C1: once written, the sentence-hit table has exactly one row for every
\* sentence id of sentences.csv, no other row, and its rows are in strictly
\* ascending order of sentence id.
C1_DenseAscendingRows ==
    SENT_HITS_OUT.written =>
        LET rows == SENT_HITS_OUT.rows
        IN  /\ {rows[i].sentence_id : i \in 1..Len(rows)} = listed_ids
            /\ Len(rows) = Cardinality(listed_ids)
            /\ \A i \in 1..(Len(rows) - 1) :
                   rows[i].sentence_id < rows[i + 1].sentence_id

\* C1 witness: sentences.csv lists id 1 before id 0; the table is written with
\* a row that has a hit and a row that has none.
C1_Witness ==
    /\ SENT_HITS_OUT.written
    /\ Len(sentence_rows) = 2
    /\ int(sentence_rows[1].sentence_id) > int(sentence_rows[2].sentence_id)
    /\ \E i, j \in 1..Len(SENT_HITS_OUT.rows) :
           /\ SENT_HITS_OUT.rows[i].any_hit = 1
           /\ SENT_HITS_OUT.rows[j].any_hit = 0

\* C2: the hit_type of every token-hit record is decided by the number of
\* active lexicons that match: one gives that lexicon's name, two give "both",
\* three give "triple"; no record stands for zero matches.
C2_LabelByMatchCount ==
    \A i \in 1..Len(token_hits_rows) :
        LET h == token_hits_rows[i]
            m == matching(h.lex_cat, h.lemma)
            k == Cardinality(m)
        IN  /\ k >= 1
            /\ k = 1 => h.hit_type \in m
            /\ k = 2 => h.hit_type = "both"
            /\ k >= 3 => h.hit_type = "triple"

\* C2 witness: one run holds a record labelled "both" and a record labelled
\* with a single lexicon's name.
C2_Witness ==
    \E i, j \in 1..Len(token_hits_rows) :
        /\ token_hits_rows[i].hit_type = "both"
        /\ token_hits_rows[j].hit_type \in
               {"transgression", "punishment", "reward"}

\* The per-sentence lists and the token-hit records are left as they were.
NothingRecorded ==
    UNCHANGED <<trans_hits, pun_hits, reward_hits, token_hits_rows>>

\* C3 as stated: reading a row whose pos field is not one of the five tags
\* records nothing.
C3_AsStated ==
    [][(pc = "tokens" /\ n' = n + 1 /\ row'.pos \notin DOMAIN POS_TO_LEXCAT)
          => NothingRecorded]_vars

\* C3 amended: reading a row whose pos field, with surrounding whitespace
\* removed, is not one of the five tags records nothing, whatever the
\* lexicons contain.
C3_UnmappedPosRecordsNothing ==
    [][(pc = "tokens" /\ n' = n + 1
          /\ strip(row'.pos) \notin {VERB, NOUN, PROPN, ADJ, ADV})
          => NothingRecorded]_vars

\* C3 witness: a row tagged DET whose lemma the transgression lexicon lists
\* has been read after an earlier hit, and no record was added for it.
C3_Witness ==
    /\ pc = "tokens"
    /\ n = 2
    /\ row.pos = DET
    /\ normalize_lemma(row.lemma) # <<>>
    /\ \E cat \in CategorySet : normalize_lemma(row.lemma) \in trans[cat]
    /\ Len(token_hits_rows) = 1

\* C4: in every row of the sentence-hit table any_hit is 1 iff one of the hit
\* counts written in that row is greater than zero, and 0 otherwise.
C4_AnyHitIffCount ==
    \A i \in 1..Len(SENT_HITS_OUT.rows) :
        LET r == SENT_HITS_OUT.rows[i]
            some_count ==
                \/ r.transgression_hit_count > 0
                \/ r.punishment_hit_count > 0
                \/ ("reward_hit_count" \in DOMAIN r /\ r.reward_hit_count > 0)
        IN  /\ r.any_hit \in {0, 1}
            /\ r.any_hit = 1 <=> some_count

\* C4 witness: a written row whose only hits are reward hits, flagged 1, next
\* to a row without hits, flagged 0.
C4_Witness ==
    \E i, j \in 1..Len(SENT_HITS_OUT.rows) :
        /\ SENT_HITS_OUT.rows[i].transgression_hit_count = 0
        /\ SENT_HITS_OUT.rows[i].punishment_hit_count = 0
        /\ "reward_hit_count" \in DOMAIN SENT_HITS_OUT.rows[i]
        /\ SENT_HITS_OUT.rows[i].reward_hit_count > 0
        /\ SENT_HITS_OUT.rows[i].any_hit = 1
        /\ SENT_HITS_OUT.rows[j].any_hit = 0

\* The position of main() at which each lexicon file is loaded.
load_pc(name) ==
    CASE name = "transgression" -> "load_trans"
      [] name = "punishment" -> "load_pun"
      [] name = "reward" -> "load_reward"

\* The lexicon file was read and load_lexicon raised / returned.
load_failed(name) ==
    docs[name] # NoDoc /\ pc = "aborted" /\ err_at = load_pc(name)

load_returned(name) == docs[name] # NoDoc /\ ~load_failed(name)

\* A JSON value that is an array of strings.
array_of_strings(val) ==
    val.t = "list" /\ \A i \in 1..Len(val.v) : val.v[i].t = "string"

\* Nothing was classified and no output table was written.
NothingClassifiedOrWritten ==
    /\ n = 0
    /\ token_hits_rows = <<>>
    /\ trans_hits = <<>> /\ pun_hits = <<>> /\ reward_hits = <<>>
    /\ ~TOKEN_HITS_OUT.written
    /\ ~SENT_HITS_OUT.written

\* C5 as stated: a lexicon file that was read and holds, under a category
\* key, a value that is not a list of strings makes the run fail in that load,
\* with nothing classified or written.
C5_AsStated ==
    \A name \in DOMAIN docs :
        (/\ docs[name].t = "object"
         /\ \E cat \in CategorySet \cap DOMAIN docs[name].v :
                ~array_of_strings(docs[name].v[cat]))
        => (load_failed(name) /\ err = "ValueError"
            /\ NothingClassifiedOrWritten)

\* C5 amended: a lexicon file that was read (required or optional) and holds,
\* under a category key, a value that is neither null nor a list of strings
\* makes the run fail in that load with ValueError, with nothing classified or
\* written; the optional lexicon is then not treated as absent.
C5_MalformedLexiconAborts ==
    \A name \in DOMAIN docs :
        (/\ docs[name].t = "object"
         /\ \E cat \in CategorySet \cap DOMAIN docs[name].v :
                /\ docs[name].v[cat].t # "null"
                /\ ~array_of_strings(docs[name].v[cat]))
        => (load_failed(name) /\ err = "ValueError"
            /\ NothingClassifiedOrWritten)

\* C5 witness: the reward file is present, its "adjectives" value has a
\* non-string element, and the run has aborted in the reward load.
C5_Witness ==
    /\ exists["REWARD_LEX"]
    /\ docs["reward"] = DocMixedList
    /\ pc = "aborted"
    /\ err_at = "load_reward"
    /\ load_returned("transgression")
    /\ load_returned("punishment")

\* C6 as stated: a lexicon object loads iff every category key is absent or
\* holds an array of strings.
C6_AsStated ==
    \A name \in DOMAIN docs :
        (docs[name] # NoDoc /\ docs[name].t = "object")
        => (load_returned(name)
            <=> \A cat \in CategorySet :
                    \/ cat \notin DOMAIN docs[name].v
                    \/ array_of_strings(docs[name].v[cat]))

\* C6 amended: a lexicon object loads iff every category key is absent, null
\* or an array of strings; any other value under a category key (a string, a
\* number, an object, a list with a non-string element) makes the load fail.
C6_AcceptedCategoryValues ==
    \A name \in DOMAIN docs :
        (docs[name] # NoDoc /\ docs[name].t = "object")
        => (load_returned(name)
            <=> \A cat \in CategorySet :
                    \/ cat \notin DOMAIN docs[name].v
                    \/ docs[name].v[cat].t = "null"
                    \/ array_of_strings(docs[name].v[cat]))

\* C6 witness: a document with a null category value was loaded, and the
\* lexicon built from it has that category empty and the other one normalized.
C6_Witness ==
    /\ docs["punishment"] = DocVerbs
    /\ load_returned("punishment")
    /\ pc = "load_reward"
    /\ pun["nouns"] = {}
    /\ pun["verbs"] = {<<"a">>, <<"b">>}

\* C7: with no sentence in sentences.csv neither script ends in a
\* division-by-zero failure.
C7_EmptyCorpusNoCrash ==
    (sentence_rows = <<>>)
    => (err # "ZeroDivisionError" /\ aerr # "ZeroDivisionError")

\* C8: an output table is written only after all required inputs were found,
\* every present lexicon loaded, the sentences loaded and the token rows
\* exhausted; a run that aborts before that has written neither table.
C8_NoOutputBeforeInputsDone ==
    /\ (TOKEN_HITS_OUT.written \/ SENT_HITS_OUT.written)
       => /\ \A f \in {"TOKENS_IN", "SENTENCES_IN", "TRANS_LEX", "PUN_LEX"} :
                 exists[f]
          /\ load_returned("transgression")
          /\ load_returned("punishment")
          /\ exists["REWARD_LEX"] => load_returned("reward")
          /\ pc \in {"write_sentence_hits", "summary", "done", "aborted"}
          /\ pc = "aborted" => err_at = "summary"
          /\ row = NoRow
    /\ (pc = "aborted" /\ err_at # "summary")
       => (~TOKEN_HITS_OUT.written /\ ~SENT_HITS_OUT.written)
    /\ SENT_HITS_OUT.written => TOKEN_HITS_OUT.written

\* C8 witness: the run aborted on a tokens.csv row after an earlier row had
\* produced a hit, and no table was written.
C8_Witness ==
    /\ pc = "aborted"
    /\ err_at = "tokens"
    /\ token_hits_rows # <<>>
    /\ ~TOKEN_HITS_OUT.written
    /\ ~SENT_HITS_OUT.written

\* The elements of a sequence.
Range(seq) == {seq[i] : i \in 1..Len(seq)}

\* C9: with no reward file the reward load raises nothing and reads nothing,
\* the sentence-hit table has no reward column in its header or its rows, and
\* no token-hit record is labelled "reward" or "triple" or names "reward".
C9_AbsentRewardNarrows ==
    ~exists["REWARD_LEX"] =>
        /\ err_at # "load_reward"
        /\ docs["reward"] = NoDoc
        /\ ~use_reward
        /\ Range(SENT_HITS_OUT.fieldnames)
             \cap {"reward_hit_count", "reward_lemmas"} = {}
        /\ \A i \in 1..Len(SENT_HITS_OUT.rows) :
               DOMAIN SENT_HITS_OUT.rows[i] = Range(SENT_HITS_OUT.fieldnames)
        /\ \A i \in 1..Len(token_hits_rows) :
               /\ token_hits_rows[i].hit_type \notin {"reward", "triple"}
               /\ token_hits_rows[i].hit_labels \in
                      {"transgression", "punishment",
                       "transgression|punishment"}
        /\ reward_hits = <<>>

\* C9 witness: a run without a reward file ended normally with a token hit
\* and a written sentence-hit table.
C9_Witness ==
    /\ ~exists["REWARD_LEX"]
    /\ pc = "done"
    /\ token_hits_rows # <<>>
    /\ SENT_HITS_OUT.written
    /\ Len(SENT_HITS_OUT.rows) > 0

\* C10: the hit_labels field of every token-hit record names exactly the
\* active lexicons whose set for the record's category contains its lemma,
\* each once, in the order transgression, punishment, reward.
C10_LabelsInRegistryOrder ==
    \A i \in 1..Len(token_hits_rows) :
        LET h == token_hits_rows[i]
        IN  h.hit_labels =
                join_str("|", matching_in_order(h.lex_cat, h.lemma))

\* C10 witness: a verb lemma listed by the punishment and the reward lexicon
\* only: label "both", list punishment|reward.
C10_Witness ==
    \E i \in 1..Len(token_hits_rows) :
        /\ token_hits_rows[i].lex_cat = "verbs"
        /\ token_hits_rows[i].hit_type = "both"
        /\ token_hits_rows[i].hit_labels = "punishment|reward"

\* The names of the lexicons a row of the sentence-hit table has columns for.
lexicons_in(r) ==
    {"transgression", "punishment"}
    \cup (IF "reward_hit_count" \in DOMAIN r THEN {"reward"} ELSE {})

count_written(r, name) ==
    CASE name = "transgression" -> r.transgression_hit_count
      [] name = "punishment" -> r.punishment_hit_count
      [] name = "reward" -> r.reward_hit_count

lemmas_written(r, name) ==
    CASE name = "transgression" -> r.transgression_lemmas
      [] name = "punishment" -> r.punishment_lemmas
      [] name = "reward" -> r.reward_lemmas

\* The normalized lemmas of the classified tokens of sentence sid that match
\* the lexicon, in the order of the token stream.
RECURSIVE lemmas_matching(_, _, _)
lemmas_matching(hits, sid, name) ==
    IF hits = <<>> THEN <<>>
    ELSE LET h == Head(hits)
         IN  (IF h.sentence_id = sid /\ name \in matching(h.lex_cat, h.lemma)
              THEN <<h.lemma>> ELSE <<>>)
             \o lemmas_matching(Tail(hits), sid, name)

\* C13: in every written row, for every active lexicon, the lemma column is
\* the normalized lemmas of that sentence's tokens that match the lexicon, in
\* stream order with repeats, joined by a blank, and the count column is the
\* number of those lemmas; the reward columns exist iff the lexicon is active.
C13_ListsInStreamOrder ==
    \A i \in 1..Len(SENT_HITS_OUT.rows) :
        LET r == SENT_HITS_OUT.rows[i]
        IN  /\ lexicons_in(r) =
                 {"transgression", "punishment"}
                 \cup (IF use_reward THEN {"reward"} ELSE {})
            /\ \A name \in lexicons_in(r) :
                 LET expected ==
                         lemmas_matching(token_hits_rows, r.sentence_id, name)
                 IN  /\ lemmas_written(r, name) = join(" ", expected)
                     /\ count_written(r, name) = Len(expected)

\* C13 witness: a written row lists two different lemmas of one sentence for
\* the punishment lexicon, "b" read before "a".
C13_Witness ==
    \E i \in 1..Len(SENT_HITS_OUT.rows) :
        /\ SENT_HITS_OUT.rows[i].punishment_lemmas = <<"b", " ", "a">>
        /\ SENT_HITS_OUT.rows[i].punishment_hit_count = 2

\* new is old with lemma appended to the list of sid, and nothing else changed.
AppendedTo(old, new, sid, lemma) ==
    /\ DOMAIN new = DOMAIN old \cup {sid}
    /\ new[sid] = (IF sid \in DOMAIN old THEN old[sid] ELSE <<>>) \o <<lemma>>
    /\ \A k \in DOMAIN old \ {sid} : new[k] = old[k]

\* C15: reading a token row adds the token's normalized lemma to a lexicon's
\* list iff the lemma is non-empty, the tag (surrounding whitespace removed)
\* maps to a category (VERB to verbs, NOUN and PROPN to nouns, ADJ to
\* adjectives, ADV to adverbs) and the active lexicon's set for that one
\* category contains the lemma; a token-hit record is added iff that holds of
\* some active lexicon.
C15_CategoryAwareMatch ==
    [][(pc = "tokens" /\ n' = n + 1 /\ int_ok(row'.sentence_id)) =>
         LET lemma == strip(lower(row'.lemma))
             tag == strip(row'.pos)
             cat == CASE tag = VERB -> "verbs"
                      [] tag \in {NOUN, PROPN} -> "nouns"
                      [] tag = ADJ -> "adjectives"
                      [] tag = ADV -> "adverbs"
                      [] OTHER -> None
             sid == int(row'.sentence_id)
             matches(name) ==
                 /\ lemma # <<>>
                 /\ cat # None
                 /\ lemma \in lexicon_named(name)[cat]
             step(old, new, name) ==
                 IF matches(name) THEN AppendedTo(old, new, sid, lemma)
                 ELSE new = old
         IN  /\ step(trans_hits, trans_hits', "transgression")
             /\ step(pun_hits, pun_hits', "punishment")
             /\ step(reward_hits, reward_hits', "reward")
             /\ IF \E name \in Range(LexiconNames) : matches(name)
                THEN /\ Len(token_hits_rows') = Len(token_hits_rows) + 1
                     /\ SubSeq(token_hits_rows', 1, Len(token_hits_rows))
                          = token_hits_rows
                     /\ token_hits_rows'[Len(token_hits_rows')].lemma = lemma
                     /\ token_hits_rows'[Len(token_hits_rows')].lex_cat = cat
                ELSE token_hits_rows' = token_hits_rows]_vars

\* C15 witness: a VERB row with lemma "a" was read while the transgression
\* lexicon lists "a" under nouns only and the punishment lexicon under verbs:
\* the record names punishment alone.
C15_Witness ==
    /\ pc = "tokens"
    /\ strip(row.pos) = VERB
    /\ normalize_lemma(row.lemma) = <<"a">>
    /\ <<"a">> \in trans["nouns"]
    /\ <<"a">> \notin trans["verbs"]
    /\ token_hits_rows # <<>>
    /\ token_hits_rows[Len(token_hits_rows)].token = n
    /\ token_hits_rows[Len(token_hits_rows)].hit_labels = "punishment"

\* The lists of lexicon names a hit_labels field can stand for.
LabelLists ==
    LET pick(chosen) ==
            LET in_chosen(name) == name \in chosen
            IN  SelectSeq(LexiconNames, in_chosen)
    IN  {pick(chosen) : chosen \in SUBSET Range(LexiconNames)} \ {<<>>}

\* The token-hit record names the lexicon in its hit_labels field.
names_lexicon(h, name) ==
    \E labels \in LabelLists :
        join_str("|", labels) = h.hit_labels /\ name \in Range(labels)

RECURSIVE sum_counts(_, _)
sum_counts(rows, name) ==
    IF rows = <<>> THEN 0
    ELSE (IF name \in lexicons_in(Head(rows))
          THEN count_written(Head(rows), name) ELSE 0)
         + sum_counts(Tail(rows), name)

records_naming(name) ==
    {i \in 1..Len(token_hits_rows) : names_lexicon(token_hits_rows[i], name)}

\* C16: once the sentence-hit table is written, the counts of a lexicon summed
\* over its rows equal the number of token-hit records that name the lexicon
\* and whose sentence id is listed in sentences.csv; the sums equal the full
\* numbers of records for all lexicons iff every record's sentence id is
\* listed.
C16_TablesAgreeOnListedSentences ==
    SENT_HITS_OUT.written =>
        /\ \A name \in Range(LexiconNames) :
               sum_counts(SENT_HITS_OUT.rows, name) =
                   Cardinality({i \in records_naming(name) :
                       token_hits_rows[i].sentence_id \in listed_ids})
        /\ (\A name \in Range(LexiconNames) :
               sum_counts(SENT_HITS_OUT.rows, name) =
                   Cardinality(records_naming(name)))
           <=> (\A i \in 1..Len(token_hits_rows) :
                   token_hits_rows[i].sentence_id \in listed_ids)

\* C16 witness: the tables are written, one token-hit record belongs to a
\* listed sentence and one to a sentence id sentences.csv does not list, and
\* the transgression counts sum to less than the records naming it.
C16_Witness ==
    /\ SENT_HITS_OUT.written
    /\ \E i, j \in 1..Len(token_hits_rows) :
           /\ token_hits_rows[i].sentence_id \in listed_ids
           /\ token_hits_rows[j].sentence_id \notin listed_ids
    /\ sum_counts(SENT_HITS_OUT.rows, "transgression")
         < Cardinality(records_naming("transgression"))

\* the count a frequency table holds for a lemma, 0 when it has no entry
occurrences(counter, lemma) ==
    LET at == {i \in 1..Len(counter) : counter[i].lemma = lemma}
    IN  IF at = {} THEN 0 ELSE counter[CHOOSE i \in at : TRUE].count

one_entry_per_lemma(counter) ==
    \A i, j \in 1..Len(counter) :
        counter[i].lemma = counter[j].lemma => i = j

RECURSIVE total(_)
total(counter) ==
    IF counter = <<>> THEN 0 ELSE Head(counter).count + total(Tail(counter))

records_labelled(label, lemma) ==
    {i \in 1..Len(TOKEN_HITS_OUT.rows) :
        /\ TOKEN_HITS_OUT.rows[i].hit_type = label
        /\ TOKEN_HITS_OUT.rows[i].lemma = lemma}

lemmas_recorded ==
    {TOKEN_HITS_OUT.rows[i].lemma : i \in 1..Len(TOKEN_HITS_OUT.rows)}
    \cup UNION {{counters[label][i].lemma : i \in 1..Len(counters[label])} :
                  label \in HitTypes}

\* the tokens.csv rows 00_lemma_frequencies.py counts for a lexicon
verbs_listed(lexicon, lemma) ==
    {i \in 1..Len(lf.tokens) :
        /\ lf.tokens[i].pos = VERB
        /\ lower(lf.tokens[i].lemma) = lemma
        /\ lemma \in lexicon}

CombinedLabelFold ==
    apc = "done" =>
        /\ \A label \in HitTypes :
               /\ one_entry_per_lemma(counters[label])
               /\ \A lemma \in lemmas_recorded :
                      occurrences(counters[label], lemma)
                          = Cardinality(records_labelled(label, lemma))
        /\ total(counters["transgression"]) + total(counters["punishment"])
             + total(counters["reward"]) + total(counters["both"])
             + total(counters["triple"])
               = Len(TOKEN_HITS_OUT.rows)

\* C11: the combined-label tables of 03_analysis.py are a fold of the
\* token-hit records: a table holds for a lemma the number of records with
\* that lemma and the table's label, so a record labelled "both" counts in
\* the "both" table only, and the counts of the five tables sum to the number
\* of records; the per-lexicon tables of 00_lemma_frequencies.py hold for a
\* lemma the number of VERB tokens with that lemma the lexicon lists, a verb
\* of both lexicons counting in both tables.
C11_CombinedLabelTablesFoldRecords ==
    /\ CombinedLabelFold
    /\ lf.pc = "done" =>
           \A lemma \in {<<"a">>, <<"A">>, <<>>} :
               /\ occurrences(lf.trans_counts, lemma)
                    = Cardinality(verbs_listed(lf.trans_verbs, lemma))
               /\ occurrences(lf.pun_counts, lemma)
                    = Cardinality(verbs_listed(lf.pun_verbs, lemma))

C11_Witness ==
    /\ apc = "done"
    /\ \E i, j \in 1..Len(TOKEN_HITS_OUT.rows) :
           /\ TOKEN_HITS_OUT.rows[i].hit_type = "both"
           /\ TOKEN_HITS_OUT.rows[j].hit_type = "transgression"
           /\ TOKEN_HITS_OUT.rows[i].lemma = TOKEN_HITS_OUT.rows[j].lemma
    /\ counters["both"] # <<>>
    /\ counters["transgression"] # <<>>

\* C11 as stated, of every frequency table of the repository: each counted
\* token adds one to exactly one table, so the counts of all tables sum to the
\* number of counted tokens, also in the tables of 00_lemma_frequencies.py.
C11_AsStated ==
    /\ CombinedLabelFold
    /\ lf.pc = "done" =>
           total(lf.trans_counts) + total(lf.pun_counts)
             + total(lf.framing_counts)
               = Cardinality(
                     {i \in 1..Len(lf.tokens) :
                         LET lemma == lower(lf.tokens[i].lemma)
                         IN  \/ verbs_listed(lf.trans_verbs, lemma) # {}
                             \/ verbs_listed(lf.pun_verbs, lemma) # {}
                             \/ lemma \in lf.framing_cues})

\* where the lemma of an item stands in the table the query read
position(item) ==
    CHOOSE i \in 1..Len(counters[top.label]) :
        counters[top.label][i].lemma = item.lemma

\* an item comes before another: higher count, or equal count and seen first
before(x, y) ==
    \/ x.count > y.count
    \/ x.count = y.count /\ position(x) < position(y)

\* C12: top(label, n) returns min(n, size of the table) entries of the label's
\* table, in non-increasing order of count, entries of equal count in the
\* order they were first seen; every entry left out comes after every entry
\* returned in that same order.
C12_TopStableByFirstSeen ==
    top.label # None =>
        LET table == counters[top.label]
        IN  /\ Len(top.items) <= top.n
            /\ Len(top.items) = IF Len(table) < top.n THEN Len(table)
                                ELSE top.n
            /\ Range(top.items) \subseteq Range(table)
            /\ \A i, j \in 1..Len(top.items) :
                   i < j => before(top.items[i], top.items[j])
            /\ \A e \in Range(table) \ Range(top.items) :
                   \A x \in Range(top.items) : before(x, e)

\* three lemmas of equal count, first seen in the order b, a, c: the query
\* for two returns b then a
C12_Witness ==
    /\ top.label = "transgression"
    /\ top.n = 2
    /\ Len(counters["transgression"]) = 3
    /\ \A i \in 1..3 : counters["transgression"][i].count = 1
    /\ counters["transgression"][1].lemma = <<"b">>
    /\ counters["transgression"][2].lemma = <<"a">>
    /\ top.items = SubSeq(counters["transgression"], 1, 2)

====
